---- MODULE Spec2Model ----
(***************************************************************************)
(* Model of @se-oss/timeout (src/src/index.ts): long-delay setTimeout and  *)
(* setInterval built as a chain of native timer segments, clearTimeout,    *)
(* AbortSignal support and the promise-based delay().                      *)
(*                                                                         *)
(* One logical timer is created per behaviour (every timer owns its own    *)
(* closure state, so timers do not interact).  The native timer queue, the *)
(* clock performance.now() and the AbortSignal are the environment.        *)
(*                                                                         *)
(* Time is scaled: TLC integers are 32 bits wide, so MAX_TIMEOUT (2^31-1   *)
(* in the source) and Number.MAX_SAFE_INTEGER (2^53-1) are represented by  *)
(* small numbers that keep their order 0 < MAX_TIMEOUT < 2*MAX_TIMEOUT     *)
(* < MAX_SAFE_INTEGER; the code only compares against them and adds and    *)
(* subtracts times.                                                        *)
(***************************************************************************)
EXTENDS Integers, FiniteSets, Sequences, TLC

\* ---- program constants (scaled, see above) ----
MAX_TIMEOUT == 3
MAX_SAFE_INTEGER == 7

\* ---- bounds of the model ----
\* numeric delay arguments range over -1 .. MaxDelay
MaxDelay == 8
\* the timer is created at a clock reading in 0 .. MaxStart
MaxStart == 1
\* a due native timer fires at most MaxLate time units late
MaxLate == 2
\* a repeating timer is followed for at most MaxTicks callback invocations
MaxTicks == 3

\* the clock is followed up to the latest possible fire of a finite timer
Horizon == MaxStart + MaxDelay + 2 * MaxLate

Max(a, b) == IF a >= b THEN a ELSE b
Min(a, b) == IF a <= b THEN a ELSE b

\* ---- JavaScript values that reach the timer code ----
Undefined == [t |-> "undefined", v |-> 0]
NaN == [t |-> "NaN", v |-> 0]
POSITIVE_INFINITY == [t |-> "Infinity", v |-> 0]
NEGATIVE_INFINITY == [t |-> "-Infinity", v |-> 0]
Num(n) == [t |-> "number", v |-> n]

\* the delay arguments a caller can pass
DelayArgs == {Undefined, NaN, POSITIVE_INFINITY, NEGATIVE_INFINITY}
             \cup {Num(n) : n \in -1 .. MaxDelay}

\* delay = Number(delay ?? 0)
ToNumber(d) == IF d = Undefined THEN Num(0) ELSE d

\* delay > Number.MAX_SAFE_INTEGER
ExceedsSafe(d) == d.t = "Infinity" \/ (d.t = "number" /\ d.v > MAX_SAFE_INTEGER)

\* mutant: a negative delay is kept
ClampDelayKeepsNegative(d) == IF d.t # "number" THEN 0 ELSE d.v

\* if (!Number.isFinite(delay) || delay < 0) delay = 0
ClampDelay(d) == IF d.t # "number" \/ d.v < 0 THEN 0 ELSE d.v

\* timeout.id === undefined
NoId == 0

\* a callback argument that is not a function
NotCallable == "null"

\* typeof callback === 'function'
IsCallable(cb) == cb # NotCallable

VARIABLES
  now,             \* performance.now()
  api,             \* the public function that was called: "none" before the call
  delayArg,        \* the delay argument of that call
  t0,              \* clock reading at the call
  handle,          \* "none", "timer" (object built by _setTimeout / setInterval),
                   \* "static" (the pre-cleared object of an already aborted signal)
  id,              \* timeout.id: the latest native timer, NoId when undefined
  _cleared,        \* timeout._cleared
  _targetTime,     \* timeout._targetTime (Undefined or Num)
  nextTargetTime,  \* setInterval's closure variable
  delay,           \* the clamped delay kept in the closure
  shouldUnref,     \* closure variable of ref() / unref()
  callback,        \* setTimeout's own parameter variable `callback`
  timerCallback,   \* the callback parameter of _setTimeout / setInterval, which the
                   \* native timer closures call
  natives,         \* pending native timers (globalThis.setTimeout registrations)
  nextId,          \* next native timer identity
  signal,          \* "absent", "active", "aborted"
  listeners,       \* abort listeners registered on the signal
  registered,      \* history: number of native registrations made
  lastReg,         \* history: the latest native registration
  cbCalls,         \* history: number of invocations of the user callback
  cbTime,          \* history: clock reading of the latest invocation
  resolved,        \* history: number of calls of the promise's resolve
  rejected,        \* history: number of calls of the promise's reject
  maxLate,         \* history: largest lateness of a native fire so far
  clearedAt,       \* history: cbCalls when clearTimeout first ran, -1 before
  abortedPending,  \* history: the signal aborted while the timer was pending
  arguments_,      \* the ...arguments_ of _setTimeout / setInterval, forwarded to the callback
  cbArgs,          \* history: the arguments of the latest callback invocation
  argsAtCall,      \* history: what the call passed after the delay
  threw,           \* the call threw a TypeError
  cbAtCall,        \* history: the callback argument of the call
  cbRemaining,     \* history: remaining() as the latest callback invocation saw it
  intent,          \* history: the latest of the caller's ref() / unref() calls, "ref"
                   \* (a native timer's state when neither is called) before any
  sigAtCall,       \* history: state of the signal when the public function was called
  sample           \* history: the value remaining() returned when the step that led
                   \* here was a call of it, Undefined otherwise

vars == <<now, api, delayArg, t0, handle, id, _cleared, _targetTime, nextTargetTime,
          delay, shouldUnref, callback, timerCallback, natives, nextId, signal, listeners, registered,
          lastReg, cbCalls, cbTime, resolved, rejected, maxLate, clearedAt,
          abortedPending, sigAtCall, sample,
          arguments_,
          cbArgs,
          argsAtCall,
          threw,
          cbAtCall,
          cbRemaining,
          intent>>

\* the mutable state the operations work on, as one record (no result of
\* remaining() is held when an operation starts)
State ==
  [now |-> now, api |-> api, handle |-> handle, id |-> id, _cleared |-> _cleared,
   _targetTime |-> _targetTime, nextTargetTime |-> nextTargetTime, delay |-> delay,
   shouldUnref |-> shouldUnref, callback |-> callback,
   timerCallback |-> timerCallback, natives |-> natives, nextId |-> nextId,
   signal |-> signal, listeners |-> listeners, registered |-> registered,
   lastReg |-> lastReg, cbCalls |-> cbCalls, cbTime |-> cbTime,
   resolved |-> resolved, rejected |-> rejected, maxLate |-> maxLate,
   clearedAt |-> clearedAt, abortedPending |-> abortedPending,
   arguments_ |-> arguments_,
   cbArgs |-> cbArgs,
   threw |-> threw,
   cbRemaining |-> cbRemaining,
   sample |-> Undefined]

\* the state after an operation: every field of its result is assigned
\* (the result is evaluated once, as the single element of a set)
Commit(s) ==
  \E r \in {s} :
    /\ handle' = r.handle
    /\ id' = r.id
    /\ _cleared' = r._cleared
    /\ _targetTime' = r._targetTime
    /\ nextTargetTime' = r.nextTargetTime
    /\ delay' = r.delay
    /\ shouldUnref' = r.shouldUnref
    /\ callback' = r.callback
    /\ timerCallback' = r.timerCallback
    /\ natives' = r.natives
    /\ nextId' = r.nextId
    /\ signal' = r.signal
    /\ listeners' = r.listeners
    /\ registered' = r.registered
    /\ lastReg' = r.lastReg
    /\ cbCalls' = r.cbCalls
    /\ cbTime' = r.cbTime
    /\ resolved' = r.resolved
    /\ rejected' = r.rejected
    /\ maxLate' = r.maxLate
    /\ clearedAt' = r.clearedAt
    /\ abortedPending' = r.abortedPending
    /\ arguments_' = r.arguments_
    /\ cbArgs' = r.cbArgs
    /\ threw' = r.threw
    /\ cbRemaining' = r.cbRemaining
    /\ sample' = r.sample

NoReg == [span |-> 0, at |-> 0, target |-> 0]

Init ==
  /\ now = 0
  /\ api = "none"
  /\ delayArg = Undefined
  /\ t0 = 0
  /\ handle = "none"
  /\ id = NoId
  /\ _cleared = FALSE
  /\ _targetTime = Undefined
  /\ nextTargetTime = Undefined
  /\ delay = 0
  /\ shouldUnref = FALSE
  /\ callback = "none"
  /\ timerCallback = "none"
  /\ natives = {}
  /\ nextId = 1
  /\ signal = "absent"
  /\ listeners = {}
  /\ registered = 0
  /\ lastReg = NoReg
  /\ cbCalls = 0
  /\ cbTime = 0
  /\ resolved = 0
  /\ rejected = 0
  /\ maxLate = 0
  /\ clearedAt = -1
  /\ abortedPending = FALSE
  /\ sigAtCall = "absent"
  /\ sample = Undefined
  /\ arguments_ = <<>>
  /\ cbArgs = <<>>
  /\ argsAtCall = <<>>
  /\ threw = FALSE
  /\ cbAtCall = "cb"
  /\ cbRemaining = Undefined
  /\ intent = "ref"

\* ---- the environment: native timers and the signal's listener list ----

\* the target time of the running cycle (read for the history record only)
TargetOf(s) ==
  LET tt == IF s.api = "setInterval" THEN s.nextTargetTime ELSE s._targetTime
  IN IF tt.t = "number" THEN tt.v ELSE 0

\* timeout.id = globalThis.setTimeout(cb, span)
nativeSetTimeout(s, cb, span) ==
  [s EXCEPT !.natives = @ \cup {[nid |-> s.nextId, due |-> s.now + span,
                                 cb |-> cb, unrefd |-> FALSE]},
            !.id = s.nextId,
            !.nextId = @ + 1,
            !.registered = @ + 1,
            !.lastReg = [span |-> span, at |-> s.now, target |-> TargetOf(s)]]

\* this.id?.unref?.()
nativeUnref(s) ==
  [s EXCEPT !.natives = {IF n.nid = s.id THEN [n EXCEPT !.unrefd = TRUE] ELSE n : n \in @}]

\* this.id?.ref?.()
nativeRef(s) ==
  [s EXCEPT !.natives = {IF n.nid = s.id THEN [n EXCEPT !.unrefd = FALSE] ELSE n : n \in @}]

\* globalThis.clearTimeout(id): a pending native timer is cancelled, a fired one ignored
nativeClearTimeout(s, i) == [s EXCEPT !.natives = {n \in @ : n.nid # i}]

\* signal.addEventListener('abort', l, { once: true })
addEventListener(s, l) == [s EXCEPT !.listeners = @ \cup {l}]

\* signal.removeEventListener('abort', l)
removeEventListener(s, l) == [s EXCEPT !.listeners = @ \ {l}]

\* ---- clearTimeout / clearInterval ----

\* mutant: the brand test is inverted, so a genuine handle is ignored
clearTimeoutIgnored(s) ==
  [s EXCEPT !.clearedAt = IF @ = -1 THEN s.cbCalls ELSE @]

\* mutant: the native timer is cancelled but _cleared is not set
clearTimeoutNoFlag(s) ==
  LET s1 == [s EXCEPT !.clearedAt = IF @ = -1 THEN s.cbCalls ELSE @]
  IN IF s1.id # NoId THEN [nativeClearTimeout(s1, s1.id) EXCEPT !.id = NoId] ELSE s1

\* mutant: the flag is set but the native timer is left registered
clearTimeoutKeepsNative(s) ==
  [s EXCEPT !._cleared = TRUE, !.id = NoId,
            !.clearedAt = IF @ = -1 THEN s.cbCalls ELSE @]

clearTimeout(s) ==
  LET s1 == [s EXCEPT !._cleared = TRUE,
                      !.clearedAt = IF @ = -1 THEN s.cbCalls ELSE @]
  IN IF s1.id # NoId THEN [nativeClearTimeout(s1, s1.id) EXCEPT !.id = NoId] ELSE s1

clearInterval(s) == clearTimeout(s)

\* ---- _setTimeout ----

\* mutant: a delay above MAX_TIMEOUT is not chained
scheduleNoChain(s, remainingDelay) ==
  IF s._cleared THEN s
  ELSE LET s1 == IF remainingDelay <= MAX_TIMEOUT
                 THEN nativeSetTimeout(s, "timeout.final", remainingDelay)
                 ELSE s
       IN IF s1.shouldUnref THEN nativeUnref(s1) ELSE s1

\* mutant: < in place of <=
scheduleStrict(s, remainingDelay) ==
  IF s._cleared THEN s
  ELSE LET s1 == IF remainingDelay < MAX_TIMEOUT
                 THEN nativeSetTimeout(s, "timeout.final", remainingDelay)
                 ELSE nativeSetTimeout(s, "timeout.capped", MAX_TIMEOUT)
       IN IF s1.shouldUnref THEN nativeUnref(s1) ELSE s1

\* mutant: a new segment is not unref'd
scheduleNoReapply(s, remainingDelay) ==
  IF s._cleared THEN s
  ELSE IF remainingDelay <= MAX_TIMEOUT
       THEN nativeSetTimeout(s, "timeout.final", remainingDelay)
       ELSE nativeSetTimeout(s, "timeout.capped", MAX_TIMEOUT)

\* mutant: a delay above MAX_TIMEOUT is cut to MAX_TIMEOUT, the callback runs
\* when that segment fires
scheduleTruncates(s, remainingDelay) ==
  IF s._cleared THEN s
  ELSE LET s1 == nativeSetTimeout(s, "timeout.final", Min(remainingDelay, MAX_TIMEOUT))
       IN IF s1.shouldUnref THEN nativeUnref(s1) ELSE s1

\* const schedule = (remainingDelay) => ... of _setTimeout
schedule(s, remainingDelay) ==
  IF s._cleared THEN s
  ELSE LET s1 == IF remainingDelay <= MAX_TIMEOUT
                 THEN nativeSetTimeout(s, "timeout.final", remainingDelay)
                 ELSE nativeSetTimeout(s, "timeout.capped", MAX_TIMEOUT)
       IN IF s1.shouldUnref THEN nativeUnref(s1) ELSE s1

\* mutant: no early return for a delay above Number.MAX_SAFE_INTEGER
_setTimeoutNoCap(s, cb, d, args) ==
  LET n == ToNumber(d)
      s1 == [s EXCEPT !.handle = "timer", !.id = NoId, !._cleared = FALSE,
                      !.shouldUnref = FALSE, !.timerCallback = cb,
                      !.arguments_ = args]
      dl == ClampDelay(n)
      s2 == [s1 EXCEPT !.delay = dl, !._targetTime = Num(s.now + dl)]
  IN schedule(s2, dl)

_setTimeout(s, cb, d, args) ==
  LET n == ToNumber(d)
      s1 == [s EXCEPT !.handle = "timer", !.id = NoId, !._cleared = FALSE,
                      !.shouldUnref = FALSE, !.timerCallback = cb,
                      !.arguments_ = args]
  IN IF ExceedsSafe(n) THEN s1
     ELSE LET dl == ClampDelay(n)
              s2 == [s1 EXCEPT !.delay = dl, !._targetTime = Num(s.now + dl)]
          IN schedule(s2, dl)

\* ---- setTimeout ----

\* the values a caller passes after the delay: plain values, an options object
\* carrying the signal, an empty object
OptionsWithSignal == "{signal}"
EmptyObject == "{}"

\* typeof v === 'object' && v !== null && ('signal' in v || Object.keys(v).length === 0)
LooksLikeOptions(v) == v \in {OptionsWithSignal, EmptyObject}

\* args.at(-1) is taken for the options object and popped
PopsOptions(args) == Len(args) > 0 /\ LooksLikeOptions(args[Len(args)])

\* const newArgs = args, after the pop
NewArgs(args) == IF PopsOptions(args) THEN SubSeq(args, 1, Len(args) - 1) ELSE args

\* const { signal } = options ?? {}: whether a signal was found
SignalOf(args) == PopsOptions(args) /\ args[Len(args)] = OptionsWithSignal

\* mutant: the callback is not tested
setTimeoutUnchecked(s, cb, d, args) ==
  IF SignalOf(args) /\ s.signal = "aborted"
  THEN [s EXCEPT !.handle = "static", !.id = NoId]
  ELSE LET s0 == [s EXCEPT !.callback = cb]
           s1 == _setTimeout(s0, s0.callback, d, NewArgs(args))
           s2 == IF SignalOf(args) THEN addEventListener(s1, "setTimeout.abortListener")
                 ELSE s1
       IN [s2 EXCEPT !.callback = "wrapper"]

\* args: everything passed after the delay; s.signal: the state of the signal
\* object the caller holds ("absent" when the caller made none)
setTimeout(s, cb, d, args) ==
  IF ~IsCallable(cb)
  THEN \* throw new TypeError('Expected callback to be a function')
       [s EXCEPT !.threw = TRUE]
  ELSE IF SignalOf(args) /\ s.signal = "aborted"
  THEN [s EXCEPT !.handle = "static", !.id = NoId]
  ELSE LET s0 == [s EXCEPT !.callback = cb]
           s1 == _setTimeout(s0, s0.callback, d, NewArgs(args))
           s2 == IF SignalOf(args) THEN addEventListener(s1, "setTimeout.abortListener")
                 ELSE s1
       IN \* callback = (...callbackArgs) => { removeEventListener; originalCallback() }
          \* assigns setTimeout's own variable, after _setTimeout took the old value
          [s2 EXCEPT !.callback = "wrapper"]

\* ---- setInterval ----

\* mutant: the remaining delay is handed to the native timer uncapped
intervalScheduleUncapped(s, remainingDelay) ==
  IF s._cleared THEN s
  ELSE LET s1 == nativeSetTimeout(s, "interval.final", remainingDelay)
       IN IF s1.shouldUnref THEN nativeUnref(s1) ELSE s1

\* mutant: a segment is never shorter than 1 ms
intervalScheduleMinOne(s, remainingDelay) ==
  IF s._cleared THEN s
  ELSE LET s1 == IF remainingDelay <= MAX_TIMEOUT
                 THEN nativeSetTimeout(s, "interval.final", Max(1, remainingDelay))
                 ELSE nativeSetTimeout(s, "interval.capped", MAX_TIMEOUT)
       IN IF s1.shouldUnref THEN nativeUnref(s1) ELSE s1

\* mutant: the capped segment is registered beside the final one, not instead of it
intervalScheduleBoth(s, remainingDelay) ==
  IF s._cleared THEN s
  ELSE LET s1 == nativeSetTimeout(s, "interval.final", remainingDelay)
           s2 == IF remainingDelay <= MAX_TIMEOUT THEN s1
                 ELSE nativeSetTimeout(s1, "interval.capped", MAX_TIMEOUT)
       IN IF s2.shouldUnref THEN nativeUnref(s2) ELSE s2

\* const schedule = (remainingDelay) => ... of setInterval
intervalSchedule(s, remainingDelay) ==
  IF s._cleared THEN s
  ELSE LET s1 == IF remainingDelay <= MAX_TIMEOUT
                 THEN nativeSetTimeout(s, "interval.final", remainingDelay)
                 ELSE nativeSetTimeout(s, "interval.capped", MAX_TIMEOUT)
       IN IF s1.shouldUnref THEN nativeUnref(s1) ELSE s1

setInterval(s, cb, d, args) ==
  LET n == ToNumber(d)
      s1 == [s EXCEPT !.handle = "timer", !.id = NoId, !._cleared = FALSE,
                      !.shouldUnref = FALSE, !.timerCallback = cb,
                      !.arguments_ = args]
  IN IF ~IsCallable(cb)
     THEN \* throw new TypeError('Expected callback to be a function')
          [s EXCEPT !.threw = TRUE]
     ELSE IF ExceedsSafe(n) THEN [s1 EXCEPT !.nextTargetTime = POSITIVE_INFINITY]
     ELSE LET dl == ClampDelay(n)
              s2 == [s1 EXCEPT !.delay = dl, !.nextTargetTime = Num(s.now + dl)]
          IN intervalSchedule(s2, dl)

\* ---- delay ----

\* reject(new AbortError())
reject(s) == [s EXCEPT !.rejected = @ + 1]

\* resolve()
resolve(s) == [s EXCEPT !.resolved = @ + 1]

\* delay(ms, { signal }): the promise executor
delay_(s, ms) ==
  IF s.signal = "aborted" THEN reject(s)
  ELSE LET s1 == setTimeout(s, "delay.onFire", ms, <<>>)
       IN IF s.signal = "active" THEN addEventListener(s1, "delay.abortListener") ELSE s1

\* ---- the handle's methods ----

ref(s) ==
  IF s.handle = "static" THEN s
  ELSE nativeRef([s EXCEPT !.shouldUnref = FALSE])

unref(s) ==
  IF s.handle = "static" THEN s
  ELSE nativeUnref([s EXCEPT !.shouldUnref = TRUE])

\* get cleared()
cleared(s) == IF s.handle = "static" THEN TRUE ELSE s._cleared

\* mutant: Math.max(0, ...) is left out
remainingUnclamped(s) ==
  IF s.handle = "static" THEN Num(0)
  ELSE IF s._cleared THEN Num(0)
  ELSE IF s.api = "setInterval"
       THEN IF s.nextTargetTime.t # "number" THEN POSITIVE_INFINITY
            ELSE Num(s.nextTargetTime.v - s.now)
       ELSE IF s._targetTime = Undefined THEN POSITIVE_INFINITY
            ELSE Num(s._targetTime.v - s.now)

remaining(s) ==
  IF s.handle = "static" THEN Num(0)
  ELSE IF s._cleared THEN Num(0)
  ELSE IF s.api = "setInterval"
       THEN IF s.nextTargetTime.t # "number" THEN POSITIVE_INFINITY
            ELSE Num(Max(0, s.nextTargetTime.v - s.now))
       ELSE IF s._targetTime = Undefined THEN POSITIVE_INFINITY
            ELSE Num(Max(0, s._targetTime.v - s.now))

\* the caller calls handle.remaining() and keeps the result
callRemaining(s) == [s EXCEPT !.sample = remaining(s)]

\* ---- callbacks run by a native fire ----

\* calling the function value f; selfClears: the user's callback clears its own handle
invoke(s, f, selfClears) ==
  LET user == LET s1 == [s EXCEPT !.cbCalls = @ + 1, !.cbTime = s.now,
                                     !.cbArgs = s.arguments_,
                                     !.cbRemaining = remaining(s)]
              IN IF selfClears THEN clearTimeout(s1) ELSE s1
      onFire == \* () => { resolve(); signal?.removeEventListener('abort', abortListener) }
                removeEventListener(
                  resolve([s EXCEPT !.cbCalls = @ + 1, !.cbTime = s.now,
                                    !.cbArgs = s.arguments_,
                                    !.cbRemaining = remaining(s)]),
                  "delay.abortListener")
  IN CASE f = "cb" -> user
       [] f = "delay.onFire" -> onFire
       [] f = "wrapper" ->
            \* signal?.removeEventListener('abort', abortListener); originalCallback()
            LET s1 == removeEventListener(s, "setTimeout.abortListener")
                s2 == [s1 EXCEPT !.cbCalls = @ + 1, !.cbTime = s.now,
                                 !.cbArgs = s.arguments_,
                                 !.cbRemaining = remaining(s)]
            IN IF selfClears THEN clearTimeout(s2) ELSE s2
       [] OTHER -> s

\* mutant: the next target is anchored to the clock, not to the schedule
advanceFromNow(s) == [s EXCEPT !.nextTargetTime = Num(s.now + s.delay)]

\* nextTargetTime += delay
advance(s) == [s EXCEPT !.nextTargetTime = Num(@.v + s.delay)]

\* mutant: the callback runs first, the target is advanced and the next
\* segment registered after it
intervalFinalCallbackFirst(s, selfClears) ==
  IF s._cleared THEN s
  ELSE LET s1 == invoke(s, s.timerCallback, selfClears)
           s2 == advance(s1)
           nextDelay == Max(0, s2.nextTargetTime.v - s2.now)
       IN intervalSchedule(s2, nextDelay)

\* the arrow function of setInterval's final segment:
\* if (cleared) return; nextTargetTime += delay; schedule(nextDelay); callback(...)
intervalFinal(s, selfClears) ==
  IF s._cleared THEN s
  ELSE LET s1 == advance(s)
           nextDelay == Max(0, s1.nextTargetTime.v - s1.now)
           s2 == intervalSchedule(s1, nextDelay)
       IN invoke(s2, s2.timerCallback, selfClears)

\* the arrow functions handed to globalThis.setTimeout, by kind
fire(s, n, selfClears) ==
  LET s0 == [s EXCEPT !.natives = @ \ {n},
                      !.maxLate = Max(@, s.now - n.due)]
  IN CASE n.cb = "timeout.final" ->
            IF ~s0._cleared THEN invoke(s0, s0.timerCallback, selfClears) ELSE s0
       [] n.cb = "timeout.capped" ->
            LET tt == IF s0._targetTime = Undefined THEN 0 ELSE s0._targetTime.v
                remaining_ == Max(0, tt - s0.now)
            IN schedule(s0, remaining_)
       [] n.cb = "interval.final" -> intervalFinal(s0, selfClears)
       [] n.cb = "interval.capped" ->
            LET nextDelay == Max(0, s0.nextTargetTime.v - s0.now)
            IN intervalSchedule(s0, nextDelay)

\* ---- the abort listeners ----

\* const abortListener = () => { clearTimeout(timeout) } of setTimeout
setTimeoutAbortListener(s) == clearTimeout(s)

\* mutant: the listener of delay rejects without clearing the timer
delayAbortListenerNoClear(s) == reject(s)

\* const abortListener = () => { clearTimeout(timeout); reject(new AbortError()) }
delayAbortListener(s) == reject(clearTimeout(s))

\* the signal aborts: its listeners run, and each is dropped (once: true);
\* the timer counts as pending while it is neither cleared nor fired
abort(s) ==
  LET s1 == [s EXCEPT !.signal = "aborted", !.listeners = {},
                      !.abortedPending = (s.handle = "timer" /\ ~s._cleared
                                          /\ s.cbCalls = 0)]
      s2 == IF "setTimeout.abortListener" \in s.listeners
            THEN setTimeoutAbortListener(s1) ELSE s1
      s3 == IF "delay.abortListener" \in s.listeners
            THEN delayAbortListener(s2) ELSE s2
  IN s3

\* ---- actions ----

\* the clock advances; a due native timer is at most MaxLate late
Tick ==
  /\ now < Horizon
  /\ api = "none" => now < MaxStart
  /\ \A n \in natives : now < n.due + MaxLate
  /\ now' = now + 1
  /\ UNCHANGED <<api, delayArg, t0, handle, id, _cleared, _targetTime, nextTargetTime,
                 delay, shouldUnref, callback, timerCallback, natives, nextId, signal,
                 listeners, registered, lastReg, cbCalls, cbTime, resolved, rejected,
                 maxLate, clearedAt, abortedPending,
                 sigAtCall,
                 arguments_,
                 cbArgs,
                 argsAtCall,
                 threw,
                 cbAtCall,
                 cbRemaining,
                 intent>>
  /\ sample' = Undefined

\* the callback arguments a caller passes: a function, or a value that is none
Callbacks == {"cb", NotCallable}

\* the argument lists a caller passes after the delay: nothing, trailing
\* arguments only, the options object alone, the options object followed by
\* trailing arguments
ArgLists == {<<>>, <<"hello">>, <<OptionsWithSignal>>, <<OptionsWithSignal, "hello">>}

HasSignal(args) == \E i \in 1 .. Len(args) : args[i] = OptionsWithSignal

\* sig: the state of the signal carried by the options object, "absent" when
\* the call passes none
CallSetTimeout(cb, d, args, sig) ==
  /\ api = "none"
  /\ HasSignal(args) <=> sig # "absent"
  /\ api' = "setTimeout" /\ delayArg' = d /\ t0' = now /\ sigAtCall' = sig
  /\ argsAtCall' = args /\ cbAtCall' = cb /\ intent' = intent
  /\ Commit(setTimeout([State EXCEPT !.api = "setTimeout", !.signal = sig],
                       cb, d, args))
  /\ UNCHANGED now

CallSetInterval(cb, d) ==
  /\ api = "none"
  /\ api' = "setInterval" /\ delayArg' = d /\ t0' = now /\ sigAtCall' = "absent"
  /\ argsAtCall' = <<>> /\ cbAtCall' = cb /\ intent' = intent
  /\ Commit(setInterval([State EXCEPT !.api = "setInterval"], cb, d, <<>>))
  /\ UNCHANGED now

CallDelay(ms, sig) ==
  /\ api = "none"
  /\ api' = "delay" /\ delayArg' = ms /\ t0' = now /\ sigAtCall' = sig
  /\ argsAtCall' = <<>> /\ cbAtCall' = "cb" /\ intent' = intent
  /\ Commit(delay_([State EXCEPT !.api = "delay", !.signal = sig], ms))
  /\ UNCHANGED now

\* the caller clears the handle it was given (delay keeps its handle to itself)
CallClearTimeout ==
  /\ api \in {"setTimeout", "setInterval"}
  /\ handle # "none"
  /\ Commit(clearTimeout(State))
  /\ UNCHANGED <<now, api, delayArg, t0, intent, cbAtCall, argsAtCall, sigAtCall>>

CallRef ==
  /\ api \in {"setTimeout", "setInterval"}
  /\ handle # "none"
  /\ Commit(ref(State))
  /\ UNCHANGED <<now, api, delayArg, t0, cbAtCall, argsAtCall, sigAtCall>>
  /\ intent' = "ref"

CallUnref ==
  /\ api \in {"setTimeout", "setInterval"}
  /\ handle # "none"
  /\ Commit(unref(State))
  /\ UNCHANGED <<now, api, delayArg, t0, cbAtCall, argsAtCall, sigAtCall>>
  /\ intent' = "unref"

CallRemaining ==
  /\ api \in {"setTimeout", "setInterval"}
  /\ handle # "none"
  /\ Commit(callRemaining(State))
  /\ UNCHANGED <<now, api, delayArg, t0, intent, cbAtCall, argsAtCall, sigAtCall>>

Abort ==
  /\ signal = "active"
  /\ Commit(abort(State))
  /\ UNCHANGED <<now, api, delayArg, t0, intent, cbAtCall, argsAtCall, sigAtCall>>

\* a native timer fires, not before its span has elapsed (the state is read
\* once, as the single element of a set)
NativeFire(n, selfClears) ==
  /\ n \in natives
  /\ now >= n.due
  /\ n.cb = "interval.final" => cbCalls < MaxTicks
  /\ selfClears => api \in {"setTimeout", "setInterval"}
  /\ \E st \in {State} : Commit(fire(st, n, selfClears))
  /\ UNCHANGED <<now, api, delayArg, t0, intent, cbAtCall, argsAtCall, sigAtCall>>

Fire == \E n \in natives, selfClears \in BOOLEAN : NativeFire(n, selfClears)

Next ==
  \/ Tick
  \/ \E cb \in Callbacks, d \in DelayArgs, args \in ArgLists,
        sig \in {"absent", "active", "aborted"} : CallSetTimeout(cb, d, args, sig)
  \/ \E cb \in Callbacks, d \in DelayArgs : CallSetInterval(cb, d)
  \/ \E d \in DelayArgs, sig \in {"absent", "active", "aborted"} : CallDelay(d, sig)
  \/ CallClearTimeout
  \/ CallRef
  \/ CallUnref
  \/ CallRemaining
  \/ Abort
  \/ Fire

Spec == Init /\ [][Next]_vars

\* the event loop runs every due native timer and the clock does not stop
FairSpec == Spec /\ WF_vars(Tick) /\ WF_vars(Fire)

\* ---- properties ----

CeilDiv(a, b) == (a + b - 1) \div b

\* the call asked for a one-shot timer with a finite, non-negative delay
FiniteDelay == delayArg.t = "number" /\ delayArg.v >= 0

\* ... that does not exceed Number.MAX_SAFE_INTEGER
SafeDelay == FiniteDelay /\ delayArg.v <= MAX_SAFE_INTEGER

\* C1: a one-shot timer with a finite delay d >= 0 invokes its callback at most
\* once, and never when clearTimeout ran (directly or through the signal) before
\* the callback was invoked.
C1_AtMostOnce ==
  (api = "setTimeout" /\ FiniteDelay) =>
    /\ cbCalls <= 1
    /\ clearedAt = 0 => cbCalls = 0

\* a timer of several segments was cleared between two segments and its target
\* time has passed without a callback
C1_Witness ==
  /\ api = "setTimeout" /\ FiniteDelay /\ handle = "timer"
  /\ registered >= 2 /\ clearedAt = 0 /\ cbCalls = 0
  /\ now > _targetTime.v

\* C2 as stated: for every finite d >= 0 the callback of a timer that is never
\* cleared is eventually invoked.
C2_Original ==
  (api = "setTimeout" /\ handle = "timer" /\ FiniteDelay) ~> (cbCalls >= 1 \/ _cleared)

\* C2 amended: for every finite d with 0 <= d <= Number.MAX_SAFE_INTEGER the
\* callback of a timer that is never cleared (by the caller or by its signal)
\* is eventually invoked.
C2_EventuallyFires ==
  (api = "setTimeout" /\ handle = "timer" /\ SafeDelay) ~> (cbCalls >= 1 \/ _cleared)

\* the longest safe delay has fired after a chain of segments
C2_Witness ==
  /\ api = "setTimeout" /\ delayArg = Num(MAX_SAFE_INTEGER)
  /\ registered >= 3 /\ cbCalls = 1 /\ ~_cleared

\* C3: once clearTimeout / clearInterval has run on a handle, the callback is not
\* invoked again, cleared is true, remaining() is 0 and no native timer of the
\* handle is pending.
C3_ClearIsFinal ==
  clearedAt # -1 =>
    /\ cbCalls = clearedAt
    /\ cleared(State)
    /\ remaining(State) = Num(0)
    /\ natives = {}

\* a repeating timer was cleared after at least one tick and more than a period
\* has passed since
C3_Witness ==
  /\ api = "setInterval" /\ clearedAt >= 1 /\ cbCalls = clearedAt
  /\ registered > cbCalls
  /\ now > cbTime + delay

\* C4: every native registration asks for a span in 0 .. MAX_TIMEOUT, namely
\* min(max(0, target - now), MAX_TIMEOUT) for the target and clock reading at
\* the registration.
C4_SpanBounded ==
  registered >= 1 =>
    /\ 0 <= lastReg.span /\ lastReg.span <= MAX_TIMEOUT
    /\ lastReg.span = Min(Max(0, lastReg.target - lastReg.at), MAX_TIMEOUT)

\* a repeating timer re-issued a capped segment after the first one
C4_Witness ==
  /\ api = "setInterval" /\ registered >= 2 /\ lastReg.at > t0
  /\ lastReg.span = MAX_TIMEOUT
  /\ lastReg.target - lastReg.at > MAX_TIMEOUT

\* C5: when every native timer fired exactly on time, a one-shot timer with a
\* finite delay d > MAX_TIMEOUT has registered ceil(d / MAX_TIMEOUT) segments
\* when its callback is invoked.
C5_SegmentCount ==
  (api = "setTimeout" /\ FiniteDelay /\ delayArg.v > MAX_TIMEOUT
     /\ cbCalls = 1 /\ maxLate = 0)
    => registered = CeilDiv(delayArg.v, MAX_TIMEOUT)

\* d = 2 * MAX_TIMEOUT + 1 fired on time after three segments
C5_Witness ==
  /\ api = "setTimeout" /\ delayArg = Num(2 * MAX_TIMEOUT + 1)
  /\ cbCalls = 1 /\ maxLate = 0 /\ registered = 3

\* a repeating timer with a finite period that has ticked at least once
Ticking == api = "setInterval" /\ nextTargetTime.t = "number" /\ cbCalls >= 1

\* C6 as stated: at the k-th tick the next target is t0 + (k+1)*p, and when every
\* native fire so far was at most J <= p late the k-th tick ran in
\* [t0 + k*p, t0 + k*p + J].
C6_Original ==
  Ticking =>
    /\ nextTargetTime.v = t0 + (cbCalls + 1) * delay
    /\ cbTime >= t0 + cbCalls * delay
    /\ maxLate <= delay => cbTime <= t0 + cbCalls * delay + maxLate

\* C6 amended: the next target is t0 + (k+1)*p at the k-th tick; with every
\* native fire at most J <= p late the k-th tick ran in [t0 + k*p, t0 + k*p + J]
\* when p <= MAX_TIMEOUT, and in [t0 + k*p, t0 + k*p + 2*J] when p > MAX_TIMEOUT
\* (the last capped segment and the final segment can each be late).
C6_Anchored ==
  Ticking =>
    /\ nextTargetTime.v = t0 + (cbCalls + 1) * delay
    /\ cbTime >= t0 + cbCalls * delay
    /\ maxLate <= delay =>
         cbTime <= t0 + cbCalls * delay
                   + (IF delay <= MAX_TIMEOUT THEN maxLate ELSE 2 * maxLate)

\* the third tick of a repeating timer ran after late fires, still within the
\* largest lateness of its arithmetic schedule
C6_Witness ==
  /\ Ticking /\ cbCalls = 3 /\ delay >= 2 /\ maxLate = 2 /\ maxLate <= delay
  /\ cbTime = t0 + 3 * delay + 2

\* C7: when the signal aborts while the timer is pending, the handle is cleared
\* and its native timer cancelled in the abort step, and the completion never
\* happens: setTimeout's callback is not invoked, delay's promise is rejected
\* and not resolved.
C7_AbortClears ==
  abortedPending =>
    /\ cleared(State) /\ id = NoId /\ natives = {}
    /\ cbCalls = 0
    /\ api = "delay" => (rejected = 1 /\ resolved = 0)

\* C8: with a signal that is already aborted at the call no native timer is
\* registered and no listener added; setTimeout returns a handle with cleared
\* true and remaining() 0 whose callback is never invoked, delay rejects at once.
C8_AlreadyAborted ==
  (api # "none" /\ sigAtCall = "aborted") =>
    /\ registered = 0 /\ natives = {} /\ listeners = {}
    /\ cbCalls = 0
    /\ api = "setTimeout" => (cleared(State) /\ remaining(State) = Num(0))
    /\ api = "delay" => (rejected = 1 /\ resolved = 0)

\* C9: once the callback of setTimeout(cb, d, {signal}) has been invoked, the
\* abort listener that setTimeout registered is no longer on the signal.
C9_ListenerRemoved ==
  (api = "setTimeout" /\ cbCalls >= 1) => "setTimeout.abortListener" \notin listeners

\* C10 as stated: for every call of delay exactly one of resolve and reject is
\* called, once, and one of them is eventually called.
C10_Original ==
  /\ [](api = "delay" => resolved + rejected <= 1)
  /\ (api = "delay") ~> (resolved + rejected = 1)

\* C10 amended: for every call of delay resolve and reject are called at most
\* once in total, and when ms does not exceed Number.MAX_SAFE_INTEGER one of
\* them is eventually called.
C10_SettlesOnce ==
  /\ [](api = "delay" => resolved + rejected <= 1)
  /\ (api = "delay" /\ ~ExceedsSafe(ToNumber(delayArg))) ~> (resolved + rejected = 1)

\* the promise resolved after a chain of segments and the signal aborted later
C10_Witness ==
  /\ api = "delay" /\ resolved = 1 /\ rejected = 0 /\ registered >= 2
  /\ sigAtCall = "active" /\ signal = "aborted"

\* the handle's own state: the object's fields and the closure variables
handleState == <<handle, id, _cleared, _targetTime, nextTargetTime, delay, shouldUnref,
                 natives, listeners>>

\* a value returned by remaining(), as a number; +Infinity is above every time
RemVal(x) == IF x.t = "Infinity" THEN Horizon + MaxDelay + 1 ELSE x.v

\* what a call of remaining() would return now
RemNow == RemVal(remaining(State))

\* C11: remaining() returns 0 on a cleared handle and otherwise max(0, target -
\* now) for a finite target, never a negative value; what it returns for a
\* one-shot timer never increases from one step to the next, segment
\* boundaries included; and a call changes nothing of the handle.
C11_RemainingPure ==
  /\ [](sample # Undefined =>
          /\ RemVal(sample) >= 0
          /\ cleared(State) => sample = Num(0)
          /\ (~cleared(State) /\ api = "setTimeout" /\ _targetTime # Undefined)
               => sample = Num(Max(0, _targetTime.v - now))
          /\ (~cleared(State) /\ api = "setInterval" /\ nextTargetTime.t = "number")
               => sample = Num(Max(0, nextTargetTime.v - now)))
  /\ [][(api = "setTimeout" /\ handle # "none") => RemNow' <= RemNow]_vars
  /\ [][sample' # Undefined => UNCHANGED handleState]_vars

\* remaining() was called on a chained timer after its first segment, before
\* the target, and returned what is left
C11_Witness ==
  /\ api = "setTimeout" /\ registered >= 2 /\ ~_cleared /\ cbCalls = 0
  /\ sample = Num(_targetTime.v - now) /\ sample.v >= 1

\* the call asked for a delay that is +Infinity or above Number.MAX_SAFE_INTEGER
UnsafeDelay == delayArg = POSITIVE_INFINITY
               \/ (delayArg.t = "number" /\ delayArg.v > MAX_SAFE_INTEGER)

\* C12: for a delay or period that is +Infinity or above Number.MAX_SAFE_INTEGER
\* setTimeout and setInterval never register a native timer and never invoke the
\* callback; remaining() returns +Infinity until the handle is cleared and 0 after.
C12_InfiniteNeverFires ==
  (api \in {"setTimeout", "setInterval"} /\ handle # "none" /\ UnsafeDelay) =>
    /\ registered = 0 /\ natives = {} /\ cbCalls = 0
    /\ remaining(State) = IF cleared(State) THEN Num(0) ELSE POSITIVE_INFINITY
    /\ sample # Undefined =>
         sample = IF cleared(State) THEN Num(0) ELSE POSITIVE_INFINITY

\* remaining() was called on an uncleared timer with a finite delay above
\* Number.MAX_SAFE_INTEGER, long after the call that created it
C12_Witness ==
  /\ api = "setTimeout" /\ delayArg = Num(MAX_SAFE_INTEGER + 1) /\ handle = "timer"
  /\ ~_cleared /\ sample = POSITIVE_INFINITY /\ now > t0 + MAX_SAFE_INTEGER + 1

\* the running cycle's target as a JavaScript value
Target == IF api = "setInterval" THEN nextTargetTime ELSE _targetTime

\* the timer behaves as one of delay 0: its target is the clock reading of the
\* call, every segment it registers has span 0, and a one-shot timer registers
\* one segment only (a repeating one re-arms once per tick)
TreatedAsZero ==
  /\ Target = Num(t0) /\ delay = 0
  /\ registered >= 1 /\ lastReg.span = 0
  /\ registered = 1 + (IF api = "setInterval" THEN cbCalls ELSE 0)
  /\ (api = "setTimeout" /\ clearedAt # 0 /\ natives = {}) => cbCalls = 1

\* C13 as stated: NaN, +Infinity, -Infinity, a negative and an omitted delay are
\* all treated as 0.
C13_Original ==
  (api \in {"setTimeout", "setInterval"} /\ handle = "timer"
     /\ (delayArg \in {NaN, POSITIVE_INFINITY, NEGATIVE_INFINITY, Undefined}
         \/ (delayArg.t = "number" /\ delayArg.v < 0)))
    => TreatedAsZero

\* C13 amended: NaN, -Infinity, a negative and an omitted delay are treated as 0
\* (+Infinity is not: it exceeds Number.MAX_SAFE_INTEGER and never fires).
C13_ClampedToZero ==
  (api \in {"setTimeout", "setInterval"} /\ handle = "timer"
     /\ (delayArg \in {NaN, NEGATIVE_INFINITY, Undefined}
         \/ (delayArg.t = "number" /\ delayArg.v < 0)))
    => TreatedAsZero

\* a one-shot timer with a negative delay fired on its only segment
C13_Witness ==
  /\ api = "setTimeout" /\ delayArg = Num(-1) /\ handle = "timer"
  /\ cbCalls = 1 /\ registered = 1 /\ lastReg.span = 0 /\ cbTime >= t0
\* the call put the options object in the slot before the trailing arguments
OptionsFirst == HasSignal(argsAtCall) /\ argsAtCall[1] = OptionsWithSignal

\* C14: for setTimeout(cb, d, options, ...args) the signal of options governs
\* cancellation (an abort while the timer is pending clears it) and cb is
\* invoked with exactly args, the options object not among them; with no
\* options object cb is invoked with exactly the arguments given.
C14_OptionsThenArgs ==
  api = "setTimeout" =>
    /\ OptionsFirst =>
         /\ abortedPending => (cleared(State) /\ cbCalls = 0)
         /\ cbCalls >= 1 => cbArgs = Tail(argsAtCall)
    /\ ~HasSignal(argsAtCall) => (cbCalls >= 1 => cbArgs = argsAtCall)

\* C15: a call of setTimeout or setInterval whose callback is not callable
\* throws a TypeError and has no effect: no handle is produced, no native timer
\* is ever registered, no listener is added to the signal passed in options,
\* and nothing is ever invoked.
C15_NonCallableThrows ==
  (api \in {"setTimeout", "setInterval"} /\ ~IsCallable(cbAtCall)) =>
    /\ threw /\ handle = "none"
    /\ registered = 0 /\ natives = {} /\ id = NoId
    /\ listeners = {}
    /\ cbCalls = 0

\* setTimeout(null, d, {signal}) threw; the signal was aborted later and the
\* delay has passed
C15_Witness ==
  /\ api = "setTimeout" /\ ~IsCallable(cbAtCall) /\ threw
  /\ sigAtCall = "active" /\ signal = "aborted"
  /\ SafeDelay /\ now > t0 + delayArg.v

\* C16: a handle never has more than one pending native timer, and a native
\* timer is registered only by the creating call or from inside the fire of
\* the previous one (which is then no longer pending), one at a time.
C16_OneLiveNative ==
  /\ [](/\ Cardinality(natives) <= 1
        /\ \A n \in natives : n.nid = id)
  /\ [][registered' # registered =>
          /\ registered' = registered + 1
          /\ \/ api = "none" /\ natives = {}
             \/ \E n \in natives : now >= n.due /\ natives' \cap natives = {}]_vars

\* an unref'd interval whose period needs capped segments has re-armed several
\* times and has one native timer pending
C16_Witness ==
  /\ api = "setInterval" /\ delay > MAX_TIMEOUT /\ shouldUnref
  /\ registered >= 4 /\ cbCalls >= 1 /\ Cardinality(natives) = 1

\* C17: in every state where a handle is cleared it has no native timer (id
\* is undefined, nothing is pending); and from a cleared state on the handle
\* stays cleared, whatever is called or fires, and no native timer is
\* registered any more.
C17_ClearedStays ==
  /\ []((handle # "none" /\ cleared(State)) => (id = NoId /\ natives = {}))
  /\ [][(handle # "none" /\ cleared(State)) =>
          (cleared(State)' /\ registered' = registered /\ natives' = {})]_vars

\* a one-shot timer made of several segments was cleared after it had fired
C17_Witness ==
  /\ api = "setTimeout" /\ registered >= 2 /\ cbCalls = 1 /\ clearedAt = 1
  /\ _cleared /\ id = NoId

\* C18: in the fire that completes a cycle of an interval the target is
\* advanced by one period, then the next segment is registered with span
\* min(max(0, target - now), MAX_TIMEOUT), then the callback runs: remaining()
\* inside the callback is the distance to the advanced target, and a
\* clearInterval inside the callback cancels the segment just registered.
C18_AdvanceRegisterCall ==
  [][(api = "setInterval" /\ cbCalls' = cbCalls + 1) =>
       /\ nextTargetTime' = Num(nextTargetTime.v + delay)
       /\ registered' = registered + 1
       /\ lastReg' = [span |-> Min(Max(0, nextTargetTime'.v - now), MAX_TIMEOUT),
                      at |-> now, target |-> nextTargetTime'.v]
       /\ cbRemaining' = Num(Max(0, nextTargetTime'.v - now))
       /\ IF cleared(State)' THEN natives' = {} /\ id' = NoId
          ELSE \E n \in natives' : /\ natives' = {n} /\ n.nid = id'
                                   /\ n.due = now + lastReg'.span]_vars

\* the callback of the second tick, which ran on time, saw a whole period
\* remaining and cleared the interval: the segment registered in that fire is gone
C18_Witness ==
  /\ api = "setInterval" /\ cbCalls = 2 /\ now = cbTime /\ lastReg.at = cbTime
  /\ cbRemaining = Num(delay) /\ delay >= 1
  /\ _cleared /\ clearedAt = 2 /\ natives = {}

\* C19: every pending native timer is unref'd exactly when the latest of the
\* caller's ref() / unref() calls was unref() (ref'd when there was none),
\* whichever segment of the chain or re-arm of the interval it is; and a
\* ref() or unref() call leaves the handle, its cleared flag, its target and
\* remaining() as they were and registers nothing.
C19_IntentApplied ==
  /\ [](\A n \in natives : n.unrefd <=> intent = "unref")
  /\ [][intent' # intent =>
          /\ handle' = handle /\ cleared(State)' = cleared(State)
          /\ _targetTime' = _targetTime /\ nextTargetTime' = nextTargetTime
          /\ remaining(State)' = remaining(State)
          /\ registered' = registered /\ cbCalls' = cbCalls
          /\ {n.nid : n \in natives'} = {n.nid : n \in natives}]_vars

\* a later segment of a one-shot chain, registered after unref() was called,
\* is pending unref'd
C19_Witness ==
  /\ api = "setTimeout" /\ intent = "unref" /\ registered >= 2
  /\ \E n \in natives : n.unrefd /\ n.cb = "timeout.final" /\ lastReg.at > t0

\* the tick that is firing belongs to a period of 0, or fires a whole period
\* or more after its target
LateTick == delay = 0 \/ now >= nextTargetTime.v + delay

\* C20: when an interval's period is 0, or a tick fires at least one period
\* after its target, the fire registers the next segment with span 0 (due at
\* once); and one native fire invokes the callback at most once.
C20_BackToBack ==
  /\ [][(api = "setInterval" /\ cbCalls' = cbCalls + 1 /\ LateTick) =>
          /\ lastReg'.span = 0 /\ lastReg'.at = now
          /\ registered' = registered + 1
          /\ ~cleared(State)' => \E n \in natives' : n.nid = id' /\ n.due = now]_vars
  /\ [][cbCalls' \in {cbCalls, cbCalls + 1}]_vars

\* period 1: the second tick, whose target was t0 + 2, fired at t0 + 3, a
\* period late, and the segment of the third tick is due at once
C20_Witness ==
  /\ api = "setInterval" /\ delay = 1 /\ cbCalls = 2 /\ cbTime = t0 + 3
  /\ now = cbTime /\ lastReg.at = cbTime /\ lastReg.span = 0
  /\ \E n \in natives : n.due = now

\* the delay or period the call asked for, when it is one the timer runs with
RequestedDelay == ClampDelay(ToNumber(delayArg))

\* a capped intermediate segment is the pending native timer
CappedPending == \E n \in natives : n.cb \in {"timeout.capped", "interval.capped"}

\* C21: native timers never firing early, the callback of a one-shot timer
\* (and the resolution of delay) with a finite delay d is not invoked before
\* the clock reads t0 + d, the k-th tick of an interval of period p not before
\* t0 + k * p; and no step taken while a capped segment is pending invokes
\* the callback.
C21_NeverEarly ==
  /\ []((api # "none" /\ ~ExceedsSafe(ToNumber(delayArg)) /\ cbCalls >= 1) =>
          IF api = "setInterval" THEN cbTime >= t0 + cbCalls * RequestedDelay
          ELSE cbTime >= t0 + RequestedDelay)
  /\ [][CappedPending => cbCalls' = cbCalls]_vars

\* a one-shot timer longer than two capped segments, whose segments fired
\* late on the way, invoked its callback exactly at its target time
C21_Witness ==
  /\ api = "setTimeout" /\ delayArg = Num(2 * MAX_TIMEOUT + 1)
  /\ registered = 3 /\ maxLate >= 1
  /\ cbCalls = 1 /\ cbTime = t0 + RequestedDelay

====
